---- MODULE Spec2Model ----
(***************************************************************************)
(* Model of relevanceai/operations_new/ops_run.py: the PullUpdatePush      *)
(* pipeline (one puller thread, a pool of updater threads, a pool of       *)
(* pusher threads, the orchestrating run() call, two bounded queues and    *)
(* three progress counters) and its pure helpers.                          *)
(***************************************************************************)
EXTENDS Integers, Sequences, FiniteSets, TLC

----------------------------------------------------------------------------
(* Bounds of the model *)

MaxDocs == 2
MaxWorkers == 2
MaxRejects == 2
MaxBatchLen == 2
MaxIncrements == 2

(* Program constants *)

None == -1
MB == 1048576
SampleN == 10
RamRatioPct == 25

(* Inputs of a run, drawn from small sets *)

DocCounts == 1..MaxDocs
WorkerCounts == 1..MaxWorkers
FieldBytesChoices == {524288}
MaxChunkChoices == {2}
RamBytes == 4 * MB

----------------------------------------------------------------------------
(* Generic helpers *)

Min(a, b) == IF a < b THEN a ELSE b

RECURSIVE Sum(_)
Sum(s) == IF s = <<>> THEN 0 ELSE Head(s) + Sum(Tail(s))

Take(s, n) == SubSeq(s, 1, Min(n, Len(s)))

\* as SelectIds, without the test of the identifier
SelectIdsAll(batch, ids) == batch

RECURSIVE SelectIds(_, _)
SelectIds(batch, ids) ==
    IF batch = <<>> THEN <<>>
    ELSE IF Head(batch)["_id"] \in ids
         THEN <<Head(batch)>> \o SelectIds(Tail(batch), ids)
         ELSE SelectIds(Tail(batch), ids)

IdsOf(batch) == {batch[i]["_id"] : i \in 1..Len(batch)}

----------------------------------------------------------------------------
(* Records of the remote dataset and the transform functions *)

Doc(i) == ("_id" :> i) @@ ("text" :> 0)

Dataset(n) == [i \in 1..n |-> Doc(i)]

ApplyFunc(f, doc) ==
    CASE f = "identity" -> doc
      [] f = "add_score" -> ("score" :> 1) @@ doc
      [] f = "edit_text" -> ("text" :> 1) @@ doc

func(f, batch) == [i \in 1..Len(batch) |-> ApplyFunc(f, batch[i])]

\* the transform "raises" fails on the first record it is given
FuncRaises(f, batch) == f = "raises" /\ batch # <<>>

getsizeof(doc, fbytes) == fbytes * Cardinality(DOMAIN doc)

Sizes(docs, fbytes) == [i \in 1..Len(docs) |-> getsizeof(docs[i], fbytes)]

----------------------------------------------------------------------------
(* Pure helpers of PullUpdatePush *)

\* sum(document_sizes) / len(sample_documents), kept as the exact fraction
\* <<numerator, denominator>>; the division fails on an empty sample
AverageDefined(sizes) == Len(sizes) > 0

_get_average_document_size(sizes) == <<Sum(sizes), Len(sizes)>>

\* int(target_chunk_mb / (average / 2**20)) clipped by max_chunk_size;
\* the division fails when the average is 0
OptimalDefined(sizes) == AverageDefined(sizes) /\ Sum(sizes) > 0

_get_optimal_batch_size(sizes, target_mb, max_chunk) ==
    LET avg == _get_average_document_size(sizes)
        chunksize == (target_mb * MB * avg[2]) \div avg[1]
    IN Min(chunksize, max_chunk)

\* as _postprocess, with range(len(new_batch) - 1)
_postprocess_short(new_batch, old_keys) ==
    [idx \in 1..(Len(new_batch) - 1) |->
        [key \in {k \in DOMAIN new_batch[idx] :
                     k \notin old_keys[idx] \/ k = "_id"}
            |-> new_batch[idx][key]]]

\* as KeepKey, without the exception for the identifier
KeepKeyNew(key, keys) == key \notin keys

KeepKey(key, keys) == key \notin keys \/ key = "_id"

_postprocess(new_batch, old_keys) ==
    [idx \in 1..Len(new_batch) |->
        [key \in {k \in DOMAIN new_batch[idx] : KeepKey(k, old_keys[idx])}
            |-> new_batch[idx][key]]]

OldKeys(batch) == [i \in 1..Len(batch) |-> DOMAIN batch[i]]

\* mp.Queue(maxsize): a maxsize <= 0 means no limit
QueueFull(q, maxsize) == maxsize > 0 /\ Len(q) >= maxsize

\* as TotalQueueSize, with an explicit buffer_size capped by the size
\* derived from the memory
TotalQueueSizeMin(buffer_size, sizes) ==
    LET avg == _get_average_document_size(sizes)
        derived == (RamBytes * RamRatioPct * avg[2])
                       \div (100 * Min(avg[1], MB * avg[2]))
    IN IF buffer_size = 0 THEN derived ELSE Min(buffer_size, derived)

\* int(ram_size * ram_ratio / min(average_size, 2**20)), or buffer_size
TotalQueueSize(buffer_size, sizes) ==
    IF buffer_size = 0
    THEN LET avg == _get_average_document_size(sizes)
         IN (RamBytes * RamRatioPct * avg[2])
                \div (100 * Min(avg[1], MB * avg[2]))
    ELSE buffer_size

SingleQueueSize(all_at_once, n, buffer_size, sizes) ==
    IF all_at_once THEN n ELSE TotalQueueSize(buffer_size, sizes) \div 2

----------------------------------------------------------------------------
(* State of one run *)

VARIABLES
    dataset,            \* the records of the remote dataset, in page order
    args,               \* the arguments __init__ was called with
    config,             \* CONFIG options upload.* and the size of one field
    opts,               \* the attributes __init__ sets and run() never changes
    ndocs,              \* self.ndocs, the run total
    push_batch_size,    \* self.push_batch_size, None until sized lazily
    tq, pq,             \* the intake and the outtake queue
    pull_bar, update_bar, push_bar,
    update_batch_lock, push_batch_lock, func_lock,
    main_pc,            \* position of the caller inside run()
    pull_pc, documents, pull_i, after_id,
    u_pc, u_batch, u_i,
    u_args,             \* per updater: the arguments after the batch of the
                        \* transform call it is in, NoCall outside a call
    p_pc, p_batch, p_res, p_failed, p_i,
    may_reject,         \* how many more records the remote store will reject
    accepted,           \* per identifier: number of accepted write-backs
    written,            \* the payloads the remote store has accepted
    sent,               \* per identifier: number of bulk writes containing it
    awaiting,           \* identifiers reported failed and not re-sent since
    pages,              \* lengths of the pages the puller received
    func_calls,         \* transform calls on a non-empty batch: 0, 1, or 2
                        \* for two and more
    pp_pc, pp_old, pp_new, pp_out, pp_again,  \* harness of _postprocess
    sz_pc, sz_sizes, sz_out,                  \* harness of the batch sizer
    sm_pc, sm_in, sm_out,                     \* harness of Dataset.sample
    general_lock,                             \* self.general_lock: 0 or
                                              \* the thread that holds it
    gl_pc, gl_bar, gl_k, gl_read, gl_left,    \* harness of the counter
    gl_n, gl_sum                              \* updates under the lock

pipeVars == <<dataset, args, config, opts, ndocs, push_batch_size, tq, pq,
              pull_bar, update_bar, push_bar,
              update_batch_lock, push_batch_lock, func_lock,
              main_pc, pull_pc, documents, pull_i, after_id,
              u_pc, u_batch, u_i, p_pc, p_batch, p_res, p_failed, p_i,
              may_reject, accepted, written, sent, awaiting,
              pages, func_calls, u_args>>

ppVars == <<pp_pc, pp_old, pp_new, pp_out, pp_again>>
szVars == <<sz_pc, sz_sizes, sz_out>>
smVars == <<sm_pc, sm_in, sm_out>>
glVars == <<general_lock, gl_pc, gl_bar, gl_k, gl_read, gl_left, gl_n, gl_sum>>
pureVars == <<ppVars, szVars, smVars, glVars>>

vars == <<pipeVars, pureVars>>

N == Len(dataset)
Ids == 1..N
Updaters == 1..opts.update_workers
Pushers == 1..opts.push_workers

PPIdle ==
    /\ pp_pc = "off"
    /\ pp_old = <<>>
    /\ pp_new = <<>>
    /\ pp_out = <<>>
    /\ pp_again = <<>>

SizerIdle ==
    /\ sz_pc = "off"
    /\ sz_sizes = <<>>
    /\ sz_out = <<>>

SampleIdle ==
    /\ sm_pc = "off"
    /\ sm_in = <<>>
    /\ sm_out = <<>>

CounterIdle ==
    /\ general_lock = 0
    /\ gl_pc = <<>>
    /\ gl_bar = <<>>
    /\ gl_k = <<>>
    /\ gl_read = <<>>
    /\ gl_left = <<>>
    /\ gl_n = <<>>
    /\ gl_sum = <<>>

PureIdle == PPIdle /\ SizerIdle /\ SampleIdle /\ CounterIdle

----------------------------------------------------------------------------
(* PullUpdatePush.__init__: the state after construction.  n is the count  *)
(* the dataset reports, the other parameters are the constructor's         *)
(* arguments and the environment (CONFIG, record size, store behaviour).   *)

\* self.pull_batch_size: min(pull_batch_size, ndocs) is assigned first and
\* then replaced by the size computed from the sample
PullBatchSize(pull_bs, n, sizes, target_mb, max_chunk) ==
    LET first == Min(pull_bs, n)
        second == _get_optimal_batch_size(sizes, target_mb, max_chunk)
    IN second

NoArgs == [pull_batch_size |-> 0, update_batch_size |-> 0,
           update_workers |-> 0, multithreaded_update |-> FALSE,
           buffer_size |-> 0]

NoConfig == [target_chunk_mb |-> 0, max_chunk_size |-> 0, field_bytes |-> 0]

\* no PullUpdatePush object: the remote dataset, CONFIG and the arguments
\* of a call of __init__ alone
PipeOffWith(records, a, cfg, pc) ==
    /\ dataset = records
    /\ args = a
    /\ config = cfg
    /\ opts = [func |-> "identity", pull_batch_size |-> 0,
               update_batch_size |-> 0, update_all_at_once |-> FALSE,
               use_func_lock |-> FALSE, update_workers |-> 0,
               push_workers |-> 0, single_queue_size |-> 0,
               background_execution |-> FALSE,
               func_args |-> <<>>, func_kwargs |-> {}]
    /\ ndocs = 0
    /\ push_batch_size = None
    /\ tq = <<>>
    /\ pq = <<>>
    /\ pull_bar = 0
    /\ update_bar = 0
    /\ push_bar = 0
    /\ update_batch_lock = 0
    /\ push_batch_lock = 0
    /\ func_lock = 0
    /\ main_pc = pc
    /\ pull_pc = "new"
    /\ documents = <<>>
    /\ pull_i = 0
    /\ after_id = 0
    /\ u_pc = <<>>
    /\ u_batch = <<>>
    /\ u_i = <<>>
    /\ u_args = <<>>
    /\ p_pc = <<>>
    /\ p_batch = <<>>
    /\ p_res = <<>>
    /\ p_failed = <<>>
    /\ p_i = <<>>
    /\ may_reject = 0
    /\ accepted = <<>>
    /\ written = {}
    /\ sent = <<>>
    /\ awaiting = {}
    /\ pages = <<>>
    /\ func_calls = 0

\* __init__ raises: the sample of an empty dataset is empty and
\* _get_optimal_batch_size(sample_documents) divides by its length, so the
\* caller gets ZeroDivisionError and no object
ConstructionRaises(n, pull_bs, update_bs, uw, multithreaded, fbytes, target_mb, max_chunk) ==
    /\ ~OptimalDefined(Sizes(Take(Dataset(n), SampleN), fbytes))
    /\ PipeOffWith(Dataset(n),
                   [pull_batch_size |-> pull_bs,
                    update_batch_size |-> update_bs, update_workers |-> uw,
                    multithreaded_update |-> multithreaded,
                    buffer_size |-> 0],
                   [target_chunk_mb |-> target_mb,
                    max_chunk_size |-> max_chunk, field_bytes |-> fbytes],
                   "init_raised")

\* as UpdateWorkers, without the test of multithreaded_update
UpdateWorkersAsRequested(multithreaded, uw) == uw

\* self.update_workers: 1 when the transform gets a func_lock
UpdateWorkers(multithreaded, uw) == IF multithreaded THEN uw ELSE 1

\* as UpdateBatchSize, without the min against ndocs
UpdateBatchSizeAsRequested(update_bs, n, all_at_once) ==
    IF all_at_once THEN n ELSE update_bs

\* self.update_batch_size
UpdateBatchSize(update_bs, n, all_at_once) ==
    IF all_at_once THEN n ELSE Min(update_bs, n)

\* no transform call is in progress
NoCall == [args |-> <<>>, kwargs |-> {}, called |-> FALSE]

ConstructedWith(n, f, pull_bs, update_bs, push_bs, uw, pw, buffer_size, multithreaded, all_at_once, background, fbytes, target_mb, max_chunk, rejects, func_args, func_kwargs) ==
    LET sample_documents == Take(Dataset(n), SampleN)
        sizes == Sizes(sample_documents, fbytes)
    IN
    /\ OptimalDefined(sizes)
    /\ dataset = Dataset(n)
    /\ args = [pull_batch_size |-> pull_bs, update_batch_size |-> update_bs,
               update_workers |-> uw, multithreaded_update |-> multithreaded,
               buffer_size |-> buffer_size]
    /\ config = [target_chunk_mb |-> target_mb, max_chunk_size |-> max_chunk,
                 field_bytes |-> fbytes]
    /\ ndocs = n
    /\ opts = [func |-> f,
               pull_batch_size |->
                   PullBatchSize(pull_bs, n, sizes, target_mb, max_chunk),
               update_batch_size |->
                   UpdateBatchSize(update_bs, n, all_at_once),
               update_all_at_once |-> all_at_once,
               use_func_lock |-> ~multithreaded,
               update_workers |-> UpdateWorkers(multithreaded, uw),
               push_workers |-> pw,
               single_queue_size |->
                   SingleQueueSize(all_at_once, n, buffer_size, sizes),
               background_execution |-> background,
               func_args |-> func_args,
               func_kwargs |-> func_kwargs]
    /\ push_batch_size = push_bs
    /\ tq = <<>>
    /\ pq = <<>>
    /\ pull_bar = 0
    /\ update_bar = 0
    /\ push_bar = 0
    /\ update_batch_lock = 0
    /\ push_batch_lock = 0
    /\ func_lock = 0
    /\ main_pc = "run"
    /\ pull_pc = "new"
    /\ documents = <<>>
    /\ pull_i = 0
    /\ after_id = 0
    /\ u_pc = [w \in 1..UpdateWorkers(multithreaded, uw) |-> "new"]
    /\ u_batch = [w \in 1..UpdateWorkers(multithreaded, uw) |-> <<>>]
    /\ u_i = [w \in 1..UpdateWorkers(multithreaded, uw) |-> 0]
    /\ u_args = [w \in 1..UpdateWorkers(multithreaded, uw) |-> NoCall]
    /\ p_pc = [w \in 1..pw |-> "new"]
    /\ p_batch = [w \in 1..pw |-> <<>>]
    /\ p_res = [w \in 1..pw |-> {}]
    /\ p_failed = [w \in 1..pw |-> <<>>]
    /\ p_i = [w \in 1..pw |-> 0]
    /\ may_reject = rejects
    /\ accepted = [i \in 1..n |-> 0]
    /\ written = {}
    /\ sent = [i \in 1..n |-> 0]
    /\ awaiting = {}
    /\ pages = <<>>
    /\ func_calls = 0

\* __init__ called without func_args and func_kwargs: both are None and
\* become () and {}
Constructed(n, f, pull_bs, update_bs, push_bs, uw, pw, buffer_size, multithreaded, all_at_once, background, fbytes, target_mb, max_chunk, rejects) ==
    ConstructedWith(n, f, pull_bs, update_bs, push_bs, uw, pw, buffer_size,
                    multithreaded, all_at_once, background, fbytes,
                    target_mb, max_chunk, rejects, <<>>, {})

----------------------------------------------------------------------------
(* Groups of variables an action leaves alone *)

cfgVars == <<dataset, args, config, opts>>
pullVars == <<pull_pc, documents, pull_i, after_id, pages>>
updVars == <<u_pc, u_batch, u_i, func_calls, u_args>>
pushVars == <<p_pc, p_batch, p_res, p_failed, p_i>>
storeVars == <<may_reject, accepted, written, sent, awaiting>>
barVars == <<pull_bar, update_bar, push_bar>>
lockVars == <<update_batch_lock, push_batch_lock, func_lock>>

Terminated(pc) == pc \in {"done", "crashed"}

----------------------------------------------------------------------------
(* run() and _run_worker_threads(): the caller's thread *)

\* run(): return at once when ndocs <= 0, else start the puller
RunStart ==
    /\ main_pc = "run"
    /\ IF ndocs <= 0
       THEN /\ main_pc' = "returned"
            /\ UNCHANGED pull_pc
       ELSE /\ main_pc' = "wait_tq"
            /\ pull_pc' = "fetch"
    /\ UNCHANGED <<cfgVars, ndocs, push_batch_size, tq, pq, barVars, lockVars,
                   documents, pull_i, after_id, pages, updVars, pushVars,
                   storeVars, pureVars>>

\* as StartUpdaters, without the poll of tq
StartUpdatersAtOnce ==
    /\ main_pc = "wait_tq"
    /\ u_pc' = [w \in Updaters |-> "check"]
    /\ main_pc' = "wait_pq"
    /\ UNCHANGED <<cfgVars, ndocs, push_batch_size, tq, pq, barVars, lockVars,
                   pullVars, u_batch, u_i, func_calls, u_args, pushVars,
                   storeVars, pureVars>>

\* the first polling loop: start every updater once tq is not empty
StartUpdaters ==
    /\ main_pc = "wait_tq"
    /\ tq # <<>>
    /\ u_pc' = [w \in Updaters |-> "check"]
    /\ main_pc' = "wait_pq"
    /\ UNCHANGED <<cfgVars, ndocs, push_batch_size, tq, pq, barVars, lockVars,
                   pullVars, u_batch, u_i, func_calls, u_args, pushVars,
                   storeVars, pureVars>>

\* the second polling loop: start every pusher once pq is not empty
StartPushers ==
    /\ main_pc = "wait_pq"
    /\ pq # <<>>
    /\ p_pc' = [w \in Pushers |-> "check"]
    /\ main_pc' = IF opts.background_execution THEN "join_push" ELSE "returned"
    /\ UNCHANGED <<cfgVars, ndocs, push_batch_size, tq, pq, barVars, lockVars,
                   pullVars, updVars, p_batch, p_res, p_failed, p_i,
                   storeVars, pureVars>>

\* as Join, without the loop that joins the push threads
JoinSkipPushers ==
    /\ \/ /\ main_pc = "join_push"
          /\ main_pc' = "join_update"
       \/ /\ main_pc = "join_update"
          /\ \A w \in Updaters : Terminated(u_pc[w])
          /\ main_pc' = "join_pull"
       \/ /\ main_pc = "join_pull"
          /\ Terminated(pull_pc)
          /\ main_pc' = "returned"
    /\ UNCHANGED <<cfgVars, ndocs, push_batch_size, tq, pq, barVars, lockVars,
                   pullVars, updVars, pushVars, storeVars, pureVars>>

\* the joins, in the order pushers, updaters, puller
Join ==
    /\ \/ /\ main_pc = "join_push"
          /\ \A w \in Pushers : Terminated(p_pc[w])
          /\ main_pc' = "join_update"
       \/ /\ main_pc = "join_update"
          /\ \A w \in Updaters : Terminated(u_pc[w])
          /\ main_pc' = "join_pull"
       \/ /\ main_pc = "join_pull"
          /\ Terminated(pull_pc)
          /\ main_pc' = "returned"
    /\ UNCHANGED <<cfgVars, ndocs, push_batch_size, tq, pq, barVars, lockVars,
                   pullVars, updVars, pushVars, storeVars, pureVars>>

----------------------------------------------------------------------------
(* _pull(): the puller thread *)

\* get_where(page_size, after_id): the next page and the new cursor
GetWhere(page_size, cursor) ==
    SubSeq(dataset, cursor + 1, Min(cursor + page_size, N))

PullFetch ==
    /\ pull_pc = "fetch"
    /\ LET page == GetWhere(opts.pull_batch_size, after_id)
       IN /\ documents' = page
          /\ after_id' = after_id + Len(page)
          /\ pages' = Append(pages, Len(page))
          /\ pull_pc' = IF page = <<>> THEN "count" ELSE "put"
    /\ pull_i' = 0
    /\ UNCHANGED <<cfgVars, ndocs, push_batch_size, tq, pq, barVars, lockVars,
                   main_pc, updVars, pushVars, storeVars, pureVars>>

\* self.tq.put(document), blocking while the queue is full
PullPut ==
    /\ pull_pc = "put"
    /\ ~QueueFull(tq, opts.single_queue_size)
    /\ tq' = Append(tq, documents[pull_i + 1])
    /\ pull_i' = pull_i + 1
    /\ pull_pc' = IF pull_i + 1 = Len(documents) THEN "count" ELSE "put"
    /\ UNCHANGED <<cfgVars, ndocs, push_batch_size, pq, barVars, lockVars,
                   main_pc, documents, after_id, pages, updVars, pushVars,
                   storeVars, pureVars>>

\* as PullCount, leaving the loop after the first page
PullCountOnce ==
    /\ pull_pc = "count"
    /\ pull_bar' = pull_bar + Len(documents)
    /\ pull_pc' = "done"
    /\ UNCHANGED <<cfgVars, ndocs, push_batch_size, tq, pq, update_bar,
                   push_bar, lockVars, main_pc, documents, pull_i, after_id,
                   pages, updVars, pushVars, storeVars, pureVars>>

\* with general_lock: pull_bar.update(len(documents)); then the loop test
PullCount ==
    /\ pull_pc = "count"
    /\ pull_bar' = pull_bar + Len(documents)
    /\ pull_pc' = IF documents = <<>> THEN "done" ELSE "fetch"
    /\ UNCHANGED <<cfgVars, ndocs, push_batch_size, tq, pq, update_bar,
                   push_bar, lockVars, main_pc, documents, pull_i, after_id,
                   pages, updVars, pushVars, storeVars, pureVars>>

----------------------------------------------------------------------------
(* _update(): one updater thread *)

\* while self.update_bar.n < self.ndocs
UpdateCheck(w) ==
    /\ u_pc[w] = "check"
    /\ u_pc' = [u_pc EXCEPT ![w] = IF update_bar < ndocs THEN "lock" ELSE "done"]
    /\ UNCHANGED <<cfgVars, ndocs, push_batch_size, tq, pq, barVars, lockVars,
                   main_pc, pullVars, u_batch, u_i, func_calls, u_args,
                   pushVars, storeVars, pureVars>>

\* as UpdateLock, entering _get_update_batch without waiting for the lock
UpdateLockFree(w) ==
    /\ u_pc[w] = "lock"
    /\ update_batch_lock' = w
    /\ u_batch' = [u_batch EXCEPT ![w] = <<>>]
    /\ u_pc' = [u_pc EXCEPT ![w] = "drain"]
    /\ UNCHANGED <<cfgVars, ndocs, push_batch_size, tq, pq, barVars,
                   push_batch_lock, func_lock, main_pc, pullVars, u_i,
                   func_calls, u_args, pushVars, storeVars, pureVars>>

\* with self.update_batch_lock: enter _get_update_batch
UpdateLock(w) ==
    /\ u_pc[w] = "lock"
    /\ update_batch_lock = 0
    /\ update_batch_lock' = w
    /\ u_batch' = [u_batch EXCEPT ![w] = <<>>]
    /\ u_pc' = [u_pc EXCEPT ![w] = "drain"]
    /\ UNCHANGED <<cfgVars, ndocs, push_batch_size, tq, pq, barVars,
                   push_batch_lock, func_lock, main_pc, pullVars, u_i,
                   func_calls, u_args, pushVars, storeVars, pureVars>>

\* _get_update_batch: one queue.get() of the loop
UpdateDrainGet(w) ==
    /\ u_pc[w] = "drain"
    /\ Len(u_batch[w]) < opts.update_batch_size
    /\ tq # <<>>
    /\ u_batch' = [u_batch EXCEPT ![w] = Append(@, Head(tq))]
    /\ tq' = Tail(tq)
    /\ UNCHANGED <<cfgVars, ndocs, push_batch_size, pq, barVars, lockVars,
                   main_pc, pullVars, u_pc, u_i, func_calls, u_args,
                   pushVars, storeVars, pureVars>>

\* self.func(batch, *self.func_args, **self.func_kwargs), under func_lock
LockedCall ==
    [args |-> opts.func_args, kwargs |-> opts.func_kwargs, called |-> TRUE]

\* self.func(batch, **self.func_kwargs), without a func_lock
UnlockedCall ==
    [args |-> <<>>, kwargs |-> opts.func_kwargs, called |-> TRUE]

\* the transform is entered with this batch and the arguments of call
EnterFunc(w, call) ==
    /\ u_args' = [u_args EXCEPT ![w] = call]
    /\ func_calls' = IF u_batch[w] = <<>> THEN func_calls
                                          ELSE Min(func_calls + 1, 2)
    /\ u_pc' = [u_pc EXCEPT ![w] = "func"]

\* as UpdateBatchReady, waiting for a full batch in every mode
UpdateBatchReadyFull(batch, queue, batch_size, all_at_once) ==
    Len(batch) >= batch_size

\* as UpdateBatchReady, with the update_all_at_once test of the loop left out
UpdateBatchReadyShort(batch, queue, batch_size, all_at_once) ==
    \/ Len(batch) >= batch_size
    \/ queue = <<>>

\* the exits of the loop of _get_update_batch: the batch is full, or the
\* queue is empty and the run is not all-at-once
UpdateBatchReady(batch, queue, batch_size, all_at_once) ==
    \/ Len(batch) >= batch_size
    \/ ~all_at_once /\ queue = <<>>

\* _get_update_batch returns and the lock is released.  Without a func_lock
\* the thread is then inside self.func(batch, ...), with one it goes on to
\* acquire func_lock
UpdateDrainEnd(w) ==
    /\ u_pc[w] = "drain"
    /\ UpdateBatchReady(u_batch[w], tq, opts.update_batch_size,
                        opts.update_all_at_once)
    /\ update_batch_lock' = 0
    /\ IF opts.use_func_lock
       THEN /\ u_pc' = [u_pc EXCEPT ![w] = "call"]
            /\ UNCHANGED <<func_calls, u_args>>
       ELSE EnterFunc(w, UnlockedCall)
    /\ UNCHANGED <<cfgVars, ndocs, push_batch_size, tq, pq, barVars,
                   push_batch_lock, func_lock, main_pc, pullVars, u_batch,
                   u_i, pushVars, storeVars, pureVars>>

\* with self.func_lock: enter self.func(batch, ...)
UpdateCall(w) ==
    /\ u_pc[w] = "call"
    /\ func_lock = 0
    /\ func_lock' = w
    /\ EnterFunc(w, LockedCall)
    /\ UNCHANGED <<cfgVars, ndocs, push_batch_size, tq, pq, barVars,
                   update_batch_lock, push_batch_lock, main_pc, pullVars,
                   u_batch, u_i, pushVars, storeVars, pureVars>>

\* self.func returns new_batch; batch = _postprocess(new_batch, old_keys).
\* An exception of self.func leaves the with block (func_lock is released)
\* and _update: nothing catches it, the thread ends and its batch with it
UpdateReturn(w) ==
    /\ u_pc[w] = "func"
    /\ IF FuncRaises(opts.func, u_batch[w])
       THEN /\ u_batch' = [u_batch EXCEPT ![w] = <<>>]
            /\ u_pc' = [u_pc EXCEPT ![w] = "crashed"]
       ELSE LET old_keys == OldKeys(u_batch[w])
                new_batch == func(opts.func, u_batch[w])
                batch == _postprocess(new_batch, old_keys)
            IN /\ u_batch' = [u_batch EXCEPT ![w] = batch]
               /\ u_pc' = [u_pc EXCEPT ![w] =
                              IF batch = <<>> THEN "count" ELSE "put"]
    /\ u_i' = [u_i EXCEPT ![w] = 0]
    /\ u_args' = [u_args EXCEPT ![w] = NoCall]
    /\ func_lock' = IF opts.use_func_lock THEN 0 ELSE func_lock
    /\ UNCHANGED <<cfgVars, ndocs, push_batch_size, tq, pq, barVars,
                   update_batch_lock, push_batch_lock, main_pc, pullVars,
                   func_calls, pushVars, storeVars, pureVars>>

\* self.pq.put(document), blocking while the queue is full
UpdatePut(w) ==
    /\ u_pc[w] = "put"
    /\ ~QueueFull(pq, opts.single_queue_size)
    /\ pq' = Append(pq, u_batch[w][u_i[w] + 1])
    /\ u_i' = [u_i EXCEPT ![w] = @ + 1]
    /\ u_pc' = [u_pc EXCEPT ![w] =
                   IF u_i[w] + 1 = Len(u_batch[w]) THEN "count" ELSE "put"]
    /\ UNCHANGED <<cfgVars, ndocs, push_batch_size, tq, barVars, lockVars,
                   main_pc, pullVars, u_batch, func_calls, u_args,
                   pushVars, storeVars, pureVars>>

\* with general_lock: update_bar.update(len(batch))
UpdateCount(w) ==
    /\ u_pc[w] = "count"
    /\ update_bar' = update_bar + Len(u_batch[w])
    /\ u_batch' = [u_batch EXCEPT ![w] = <<>>]
    /\ u_i' = [u_i EXCEPT ![w] = 0]
    /\ u_pc' = [u_pc EXCEPT ![w] = "check"]
    /\ UNCHANGED <<cfgVars, ndocs, push_batch_size, tq, pq, pull_bar,
                   push_bar, lockVars, main_pc, pullVars, func_calls, u_args, pushVars, storeVars, pureVars>>

----------------------------------------------------------------------------
(* _push(): one pusher thread *)

\* dataset.json_encoder(batch): the values of the model's records are
\* integers, which the encoder passes through
json_encoder(batch) == batch

Occurrences(batch, i) == Cardinality({k \in 1..Len(batch) : batch[k]["_id"] = i})

\* while self.push_bar.n < self.ndocs
PushCheck(w) ==
    /\ p_pc[w] = "check"
    /\ p_pc' = [p_pc EXCEPT ![w] = IF push_bar < ndocs THEN "lock" ELSE "done"]
    /\ UNCHANGED <<cfgVars, ndocs, push_batch_size, tq, pq, barVars, lockVars,
                   main_pc, pullVars, updVars, p_batch, p_res, p_failed, p_i,
                   storeVars, pureVars>>

\* with self.push_batch_lock: enter _get_push_batch
PushLock(w) ==
    /\ p_pc[w] = "lock"
    /\ push_batch_lock = 0
    /\ push_batch_lock' = w
    /\ p_batch' = [p_batch EXCEPT ![w] = <<>>]
    /\ p_pc' = [p_pc EXCEPT ![w] =
                   IF push_batch_size = None THEN "sample" ELSE "drain"]
    /\ UNCHANGED <<cfgVars, ndocs, push_batch_size, tq, pq, barVars,
                   update_batch_lock, func_lock, main_pc, pullVars, updVars,
                   p_res, p_failed, p_i, storeVars, pureVars>>

\* one queue.get(timeout=1) of the sample_documents comprehension
PushSampleGet(w) ==
    /\ p_pc[w] = "sample"
    /\ Len(p_batch[w]) < SampleN
    /\ pq # <<>>
    /\ p_batch' = [p_batch EXCEPT ![w] = Append(@, Head(pq))]
    /\ pq' = Tail(pq)
    /\ UNCHANGED <<cfgVars, ndocs, push_batch_size, tq, barVars, lockVars,
                   main_pc, pullVars, updVars, p_pc, p_res, p_failed, p_i,
                   storeVars, pureVars>>

\* a get of the comprehension times out: queue.Empty leaves _get_push_batch
\* and _push, the lock is released, the sampled records go with the thread
PushSampleTimeout(w) ==
    /\ p_pc[w] = "sample"
    /\ Len(p_batch[w]) < SampleN
    /\ pq = <<>>
    /\ p_batch' = [p_batch EXCEPT ![w] = <<>>]
    /\ push_batch_lock' = 0
    /\ p_pc' = [p_pc EXCEPT ![w] = "crashed"]
    /\ UNCHANGED <<cfgVars, ndocs, push_batch_size, tq, pq, barVars,
                   update_batch_lock, func_lock, main_pc, pullVars, updVars,
                   p_res, p_failed, p_i, storeVars, pureVars>>

\* the sample is complete: size the push batches, the sample is the batch
PushSampleSized(w) ==
    /\ p_pc[w] = "sample"
    /\ Len(p_batch[w]) = SampleN
    /\ push_batch_size' =
           _get_optimal_batch_size(Sizes(p_batch[w], config.field_bytes),
                                   config.target_chunk_mb,
                                   config.max_chunk_size)
    /\ p_pc' = [p_pc EXCEPT ![w] = "drain"]
    /\ UNCHANGED <<cfgVars, ndocs, tq, pq, barVars, lockVars, main_pc,
                   pullVars, updVars, p_batch, p_res, p_failed, p_i,
                   storeVars, pureVars>>

\* as PushDrainGet, taking the newest record of the queue
PushDrainGetLast(w) ==
    /\ p_pc[w] = "drain"
    /\ Len(p_batch[w]) < push_batch_size
    /\ pq # <<>>
    /\ p_batch' = [p_batch EXCEPT ![w] = Append(@, pq[Len(pq)])]
    /\ pq' = SubSeq(pq, 1, Len(pq) - 1)
    /\ UNCHANGED <<cfgVars, ndocs, push_batch_size, tq, barVars, lockVars,
                   main_pc, pullVars, updVars, p_pc, p_res, p_failed, p_i,
                   storeVars, pureVars>>

\* _get_push_batch: one queue.get(timeout=1) of the while loop
PushDrainGet(w) ==
    /\ p_pc[w] = "drain"
    /\ Len(p_batch[w]) < push_batch_size
    /\ pq # <<>>
    /\ p_batch' = [p_batch EXCEPT ![w] = Append(@, Head(pq))]
    /\ pq' = Tail(pq)
    /\ UNCHANGED <<cfgVars, ndocs, push_batch_size, tq, barVars, lockVars,
                   main_pc, pullVars, updVars, p_pc, p_res, p_failed, p_i,
                   storeVars, pureVars>>

\* as FailedIncrement, counting the failing write instead of its records
FailedIncrementOne(failed_documents) == 1

\* the increment _handle_failed_documents applies to self.ndocs
FailedIncrement(failed_documents) == Cardinality(failed_documents)

\* _get_push_batch returns (the batch is full, or a get timed out on the
\* empty queue) and the lock is released; the batch is encoded and sent with
\* bulk_update, the remote store accepts the records it does not report in
\* failed_documents; _handle_failed_documents grows ndocs under general_lock
\* and picks the failed records out of the batch
PushWrite(w) ==
    /\ p_pc[w] = "drain"
    /\ \/ Len(p_batch[w]) >= push_batch_size
       \/ pq = <<>>
    /\ push_batch_lock' = 0
    /\ LET batch == json_encoder(p_batch[w])
       IN \E F \in SUBSET IdsOf(batch) :
          /\ Cardinality(F) <= may_reject
          /\ may_reject' = may_reject - Cardinality(F)
          /\ accepted' = [i \in Ids |->
                IF i \in F THEN accepted[i]
                ELSE accepted[i] + Occurrences(batch, i)]
          /\ written' = written \cup
                {batch[k] : k \in {j \in 1..Len(batch) : batch[j]["_id"] \notin F}}
          /\ sent' = [i \in Ids |-> sent[i] + Occurrences(batch, i)]
          /\ awaiting' = (awaiting \ IdsOf(batch)) \cup F
          /\ p_batch' = [p_batch EXCEPT ![w] = batch]
          /\ p_res' = [p_res EXCEPT ![w] = F]
          /\ IF F # {}
             THEN /\ ndocs' = ndocs + FailedIncrement(F)
                  /\ p_failed' = [p_failed EXCEPT ![w] = SelectIds(batch, F)]
                  /\ p_pc' = [p_pc EXCEPT ![w] = "requeue"]
             ELSE /\ ndocs' = ndocs
                  /\ p_failed' = [p_failed EXCEPT ![w] = <<>>]
                  /\ p_pc' = [p_pc EXCEPT ![w] = "count"]
    /\ p_i' = [p_i EXCEPT ![w] = 0]
    /\ UNCHANGED <<cfgVars, push_batch_size, tq, pq, barVars,
                   update_batch_lock, func_lock, main_pc, pullVars, updVars,
                   pureVars>>

\* self.pq.put(failed_document), blocking while the queue is full
PushRequeue(w) ==
    /\ p_pc[w] = "requeue"
    /\ ~QueueFull(pq, opts.single_queue_size)
    /\ pq' = Append(pq, p_failed[w][p_i[w] + 1])
    /\ p_i' = [p_i EXCEPT ![w] = @ + 1]
    /\ p_pc' = [p_pc EXCEPT ![w] =
                   IF p_i[w] + 1 = Len(p_failed[w]) THEN "count" ELSE "requeue"]
    /\ UNCHANGED <<cfgVars, ndocs, push_batch_size, tq, barVars, lockVars,
                   main_pc, pullVars, updVars, p_batch, p_res, p_failed,
                   storeVars, pureVars>>

\* as PushedIncrement, counting the whole batch
PushedIncrementAll(batch, failed_documents) == Len(batch)

\* as PushedIncrement, with the two lengths exchanged
PushedIncrementSwapped(batch, failed_documents) ==
    Len(failed_documents) - Len(batch)

\* the amount _push adds to push_bar
PushedIncrement(batch, failed_documents) == Len(batch) - Len(failed_documents)

\* with general_lock: push_bar.update(len(batch) - len(failed_documents))
PushCount(w) ==
    /\ p_pc[w] = "count"
    /\ push_bar' = push_bar + PushedIncrement(p_batch[w], p_failed[w])
    /\ p_batch' = [p_batch EXCEPT ![w] = <<>>]
    /\ p_res' = [p_res EXCEPT ![w] = {}]
    /\ p_failed' = [p_failed EXCEPT ![w] = <<>>]
    /\ p_i' = [p_i EXCEPT ![w] = 0]
    /\ p_pc' = [p_pc EXCEPT ![w] = "check"]
    /\ UNCHANGED <<cfgVars, ndocs, push_batch_size, tq, pq, pull_bar,
                   update_bar, lockVars, main_pc, pullVars, updVars,
                   storeVars, pureVars>>

----------------------------------------------------------------------------
(* The pipeline: every run the bounds allow *)

\* several workers in one pool, queues of one slot, batches of one record
PoolRuns(W) ==
    \E fbytes \in FieldBytesChoices, max_chunk \in MaxChunkChoices,
       n \in DocCounts, uw \in W, pw \in W, rejects \in {0, 1} :
        /\ uw = 1 \/ pw = 1 \/ n = 1
        /\ Constructed(n, "identity", 1, 1, 1, uw, pw, 2, TRUE, FALSE, TRUE,
                       fbytes, 1, max_chunk, rejects)

\* one worker per pool, unbounded queues, batches of several records, with
\* and without a func_lock
BatchRuns ==
    \E fbytes \in FieldBytesChoices, max_chunk \in MaxChunkChoices,
       n \in DocCounts, multithreaded \in BOOLEAN, rejects \in {0, MaxRejects} :
        Constructed(n, "identity", MaxDocs, MaxDocs, MaxDocs,
                    IF multithreaded THEN 1 ELSE MaxWorkers, 1, 1,
                    multithreaded, FALSE, TRUE, fbytes, 2, max_chunk,
                    rejects)

\* update_all_at_once, pages of one record, with and without a func_lock
AllAtOnceRuns(W) ==
    \E fbytes \in FieldBytesChoices, max_chunk \in MaxChunkChoices,
       n \in DocCounts, uw \in W, multithreaded \in BOOLEAN,
       rejects \in {0, 1} :
        Constructed(n, "identity", 1, 1, 1, uw, 1, 0, multithreaded, TRUE,
                    TRUE, fbytes, 1, max_chunk, rejects)

\* push_batch_size left to the pushers, fewer than SampleN records
LazyRuns(W) ==
    \E fbytes \in FieldBytesChoices, max_chunk \in MaxChunkChoices,
       n \in DocCounts, pw \in W :
        Constructed(n, "identity", 1, 1, None, 1, pw, 0, TRUE, FALSE, TRUE,
                    fbytes, 2, max_chunk, 0)

\* push_batch_size left to the pushers, enough records for the sample of
\* SampleN records to fill
SampledRuns ==
    \E fbytes \in FieldBytesChoices :
        Constructed(SampleN, "identity", SampleN, SampleN, None, 1, 1, 0,
                    FALSE, TRUE, FALSE, fbytes, 2, SampleN, 0)

\* a transform that fails, with and without a func_lock
\* the positional and the keyword arguments a caller gives for the transform
FuncArgs == <<"arg">>
FuncKwargs == {<<"key", "value">>}

\* runs whose transform is given arguments, with and without func_lock
ArgRuns ==
    \E fbytes \in FieldBytesChoices, max_chunk \in MaxChunkChoices,
       n \in DocCounts, multithreaded \in BOOLEAN :
        ConstructedWith(n, "identity", 1, 1, 1, 1, 1, 1, multithreaded, FALSE,
                        TRUE, fbytes, 1, max_chunk, 0, FuncArgs, FuncKwargs)

FailRuns ==
    \E fbytes \in FieldBytesChoices, max_chunk \in MaxChunkChoices,
       n \in DocCounts, multithreaded \in BOOLEAN :
        Constructed(n, "raises", 1, 1, 1, 1, 1, 1, multithreaded, FALSE, TRUE,
                    fbytes, 1, max_chunk, 0)

Runs(W) ==
    \/ PoolRuns(W)
    \/ BatchRuns
    \/ AllAtOnceRuns(W)
    \/ LazyRuns(W)
    \/ SampledRuns
    \/ FailRuns
    \/ ArgRuns

\* a dataset without records
EmptyRuns ==
    \E fbytes \in FieldBytesChoices, max_chunk \in MaxChunkChoices :
        ConstructionRaises(0, 1, 1, 1, TRUE, fbytes, 1, max_chunk)

Init == PureIdle /\ (Runs(WorkerCounts) \/ EmptyRuns)

MainStep == RunStart \/ StartUpdaters \/ StartPushers \/ Join

PullStep == PullFetch \/ PullPut \/ PullCount

UpdateStep(w) ==
    /\ w \in Updaters
    /\ \/ UpdateCheck(w)
       \/ UpdateLock(w)
       \/ UpdateDrainGet(w)
       \/ UpdateDrainEnd(w)
       \/ UpdateCall(w)
       \/ UpdateReturn(w)
       \/ UpdatePut(w)
       \/ UpdateCount(w)

PushStep(w) ==
    /\ w \in Pushers
    /\ \/ PushCheck(w)
       \/ PushLock(w)
       \/ PushSampleGet(w)
       \/ PushSampleTimeout(w)
       \/ PushSampleSized(w)
       \/ PushDrainGet(w)
       \/ PushWrite(w)
       \/ PushRequeue(w)
       \/ PushCount(w)

Next ==
    \/ RunStart
    \/ StartUpdaters
    \/ StartPushers
    \/ Join
    \/ PullFetch
    \/ PullPut
    \/ PullCount
    \/ \E w \in Updaters : UpdateCheck(w)
    \/ \E w \in Updaters : UpdateLock(w)
    \/ \E w \in Updaters : UpdateDrainGet(w)
    \/ \E w \in Updaters : UpdateDrainEnd(w)
    \/ \E w \in Updaters : UpdateCall(w)
    \/ \E w \in Updaters : UpdateReturn(w)
    \/ \E w \in Updaters : UpdatePut(w)
    \/ \E w \in Updaters : UpdateCount(w)
    \/ \E w \in Pushers : PushCheck(w)
    \/ \E w \in Pushers : PushLock(w)
    \/ \E w \in Pushers : PushSampleGet(w)
    \/ \E w \in Pushers : PushSampleTimeout(w)
    \/ \E w \in Pushers : PushSampleSized(w)
    \/ \E w \in Pushers : PushDrainGet(w)
    \/ \E w \in Pushers : PushWrite(w)
    \/ \E w \in Pushers : PushRequeue(w)
    \/ \E w \in Pushers : PushCount(w)

Spec == Init /\ [][Next]_vars

----------------------------------------------------------------------------
(* The pipeline under fair scheduling.  Every thread is an OS thread: one  *)
(* that can take a step, or that is again and again able to take one       *)
(* (a free lock, a free queue slot, an elapsed get timeout), eventually    *)
(* takes it.  The runs have one worker per pool.                           *)

LiveInit == PureIdle /\ Runs({1})

Fairness ==
    /\ SF_vars(MainStep)
    /\ SF_vars(PullStep)
    /\ SF_vars(UpdateStep(1))
    /\ SF_vars(PushStep(1))

FairSpec == LiveInit /\ [][Next]_vars /\ Fairness

----------------------------------------------------------------------------
(* _postprocess on its own: every batch of at most MaxBatchLen records the *)
(* transform can be given (old) and can return (new)                       *)

PPFields == {"_id", "text", "score"}

\* the records with identifier i: text is 0 or 1, score is 1
PPDocs(i) ==
    {d \in UNION {[S -> {0, 1, i}] : S \in SUBSET PPFields} :
        /\ "_id" \in DOMAIN d => d["_id"] = i
        /\ "text" \in DOMAIN d => d["text"] \in {0, 1}
        /\ "score" \in DOMAIN d => d["score"] = 1}

PipeOff == PipeOffWith(<<>>, NoArgs, NoConfig, "off")

PPInit ==
    /\ PipeOff
    /\ SizerIdle
    /\ SampleIdle
    /\ CounterIdle
    /\ pp_pc = "input"
    /\ \E len \in 1..MaxBatchLen :
          /\ pp_old \in {b \in [1..len -> UNION {PPDocs(i) : i \in 1..len}] :
                            \A i \in 1..len : b[i] \in PPDocs(i)
                                              /\ "_id" \in DOMAIN b[i]}
          /\ pp_new \in {b \in [1..len -> UNION {PPDocs(i) : i \in 1..len}] :
                            \A i \in 1..len : b[i] \in PPDocs(i)}
    /\ pp_out = <<>>
    /\ pp_again = <<>>

\* batch = _postprocess(new_batch, old_keys) as _update calls it
PPApply ==
    /\ pp_pc = "input"
    /\ pp_out' = _postprocess(pp_new, OldKeys(pp_old))
    /\ pp_pc' = "applied"
    /\ UNCHANGED <<pipeVars, pp_old, pp_new, pp_again, szVars, smVars, glVars>>

\* _postprocess applied to its own result, with the same old_keys
PPReapply ==
    /\ pp_pc = "applied"
    /\ pp_again' = _postprocess(pp_out, OldKeys(pp_old))
    /\ pp_pc' = "reapplied"
    /\ UNCHANGED <<pipeVars, pp_old, pp_new, pp_out, szVars, smVars, glVars>>

PPNext == PPApply \/ PPReapply

PostSpec == PPInit /\ [][PPNext]_vars

----------------------------------------------------------------------------
(* _get_optimal_batch_size on its own: every sample of at most MaxBatchLen *)
(* records whose sizes getsizeof can report (a dict never has size 0) and  *)
(* the CONFIG options it reads.  With these sizes the float arithmetic of  *)
(* the code is exact, so int(target / size) is the integer quotient.       *)

SizeChoices == {524288, 1048576, 2097152}
SizerTargets == {1, 2, 3}
SizerMaxChunks == {1, 3}

RECURSIVE Samples(_)
Samples(len) ==
    IF len = 0 THEN {<<>>}
    ELSE Samples(len - 1) \cup [1..len -> SizeChoices]

\* what a call of _get_optimal_batch_size ends with: the chunksize it
\* returns, or the ZeroDivisionError of sum(...) / len(...) on an empty
\* sample and of target_chunk_mb / document_size on a size of 0
SizerResult(sizes, target_mb, max_chunk) ==
    IF OptimalDefined(sizes)
    THEN [raised |-> "",
          chunksize |-> _get_optimal_batch_size(sizes, target_mb, max_chunk)]
    ELSE [raised |-> "ZeroDivisionError", chunksize |-> None]

SizerInit ==
    /\ \E target_mb \in SizerTargets, max_chunk \in SizerMaxChunks :
          PipeOffWith(<<>>, NoArgs,
                      [target_chunk_mb |-> target_mb,
                       max_chunk_size |-> max_chunk, field_bytes |-> 0],
                      "off")
    /\ PPIdle
    /\ SampleIdle
    /\ CounterIdle
    /\ sz_pc = "input"
    /\ sz_sizes \in Samples(MaxBatchLen)
    /\ sz_out = <<>>

\* chunksize = self._get_optimal_batch_size(sample_documents)
SizerApply ==
    /\ sz_pc = "input"
    /\ sz_out' = SizerResult(sz_sizes, config.target_chunk_mb,
                             config.max_chunk_size)
    /\ sz_pc' = "applied"
    /\ UNCHANGED <<pipeVars, ppVars, sz_sizes, smVars, glVars>>

SizerNext == SizerApply

SizerSpec == SizerInit /\ [][SizerNext]_vars

----------------------------------------------------------------------------
(* Dataset.sample on its own.  frac is given in hundredths (50 is 0.5); n  *)
(* and frac are None when the caller leaves them out, and n then has its   *)
(* default 1.  The products count * frac of the model are exact in floats. *)

SampleCounts == 0..(MaxDocs + 1)
SampleNs == {None, 0, 1, 2}
SampleFracs == {None, -50, 0, 50, 100, 150}

\* bool(x) of an optional number
Truthy(x) == x # None /\ x # 0

\* math.ceil(a / b) for a >= 0 and b > 0
Ceil(a, b) == (a + b - 1) \div b

\* documents.get_where(page_size=n, is_random=True)["documents"]: any
\* min(n, count) records of the dataset
RandomPage(records, n) ==
    {SelectIds(records, S) :
        S \in {T \in SUBSET (1..Len(records)) :
                  Cardinality(T) = Min(n, Len(records))}}

\* the results a call sample(n=n_arg, frac=frac) can end with
sample(records, n_arg, frac) ==
    LET n == IF n_arg = None THEN 1 ELSE n_arg
        count == Len(records)
    IN IF Truthy(frac) /\ Truthy(n)
       THEN {[raised |-> "ValueError", documents |-> <<>>]}
       ELSE IF Truthy(frac) /\ (frac > 100 \/ frac < 0)
       THEN {[raised |-> "ValueError", documents |-> <<>>]}
       ELSE {[raised |-> "", documents |-> page] :
                page \in RandomPage(records,
                                    IF Truthy(frac)
                                    THEN Ceil(count * frac, 100) ELSE n)}

SampleInit ==
    /\ \E count \in SampleCounts :
          PipeOffWith(Dataset(count), NoArgs, NoConfig, "off")
    /\ PPIdle
    /\ SizerIdle
    /\ CounterIdle
    /\ sm_pc = "call"
    /\ sm_in \in [n : SampleNs, frac : SampleFracs]
    /\ sm_out = <<>>

\* df.sample(n=..., frac=...)
SampleCall ==
    /\ sm_pc = "call"
    /\ sm_out' \in sample(dataset, sm_in.n, sm_in.frac)
    /\ sm_pc' = "returned"
    /\ UNCHANGED <<pipeVars, ppVars, szVars, sm_in, glVars>>

SampleNext == SampleCall

SampleSpec == SampleInit /\ [][SampleNext]_vars

----------------------------------------------------------------------------
(* The counter updates on their own.  Every change of pull_bar, update_bar *)
(* and push_bar (tqdm.update: self.n += n) and of ndocs (self.ndocs += ..) *)
(* is a read followed by a write inside `with self.general_lock:`.  Here   *)
(* MaxWorkers threads each make up to MaxIncrements such updates, of 1 or  *)
(* 2, to the counters two workers can update at once; gl_sum adds up what  *)
(* has been applied.                                                       *)

Bars == {"update_bar", "push_bar", "ndocs"}
Increments == {1, 2}
CounterThreads == 1..MaxWorkers

CounterInit ==
    /\ PipeOff
    /\ PPIdle
    /\ SizerIdle
    /\ SampleIdle
    /\ general_lock = 0
    /\ gl_pc = [t \in CounterThreads |-> "outside"]
    /\ gl_bar = [t \in CounterThreads |-> "ndocs"]
    /\ gl_k = [t \in CounterThreads |-> 0]
    /\ gl_read = [t \in CounterThreads |-> 0]
    /\ gl_left = [t \in CounterThreads |-> MaxIncrements]
    /\ gl_n = [b \in Bars |-> 0]
    /\ gl_sum = [b \in Bars |-> 0]

\* as LockedRead, entering the block without acquiring general_lock
UnlockedRead(t) ==
    /\ gl_pc[t] = "outside"
    /\ gl_left[t] > 0
    /\ \E b \in Bars, k \in Increments :
          /\ gl_bar' = [gl_bar EXCEPT ![t] = b]
          /\ gl_k' = [gl_k EXCEPT ![t] = k]
          /\ gl_read' = [gl_read EXCEPT ![t] = gl_n[b]]
    /\ gl_pc' = [gl_pc EXCEPT ![t] = "inside"]
    /\ UNCHANGED <<pipeVars, ppVars, szVars, smVars, general_lock, gl_left,
                   gl_n, gl_sum>>

\* with self.general_lock: the thread acquires the lock and reads the
\* counter it is about to add k to
LockedRead(t) ==
    /\ gl_pc[t] = "outside"
    /\ gl_left[t] > 0
    /\ general_lock = 0
    /\ general_lock' = t
    /\ \E b \in Bars, k \in Increments :
          /\ gl_bar' = [gl_bar EXCEPT ![t] = b]
          /\ gl_k' = [gl_k EXCEPT ![t] = k]
          /\ gl_read' = [gl_read EXCEPT ![t] = gl_n[b]]
    /\ gl_pc' = [gl_pc EXCEPT ![t] = "inside"]
    /\ UNCHANGED <<pipeVars, ppVars, szVars, smVars, gl_left, gl_n, gl_sum>>

\* the thread writes the value read plus k and leaves the with block
WriteUnlock(t) ==
    /\ gl_pc[t] = "inside"
    /\ gl_n' = [gl_n EXCEPT ![gl_bar[t]] = gl_read[t] + gl_k[t]]
    /\ gl_sum' = [gl_sum EXCEPT ![gl_bar[t]] = @ + gl_k[t]]
    /\ general_lock' = IF general_lock = t THEN 0 ELSE general_lock
    /\ gl_pc' = [gl_pc EXCEPT ![t] = "outside"]
    /\ gl_bar' = [gl_bar EXCEPT ![t] = "ndocs"]
    /\ gl_k' = [gl_k EXCEPT ![t] = 0]
    /\ gl_read' = [gl_read EXCEPT ![t] = 0]
    /\ gl_left' = [gl_left EXCEPT ![t] = @ - 1]
    /\ UNCHANGED <<pipeVars, ppVars, szVars, smVars>>

CounterNext ==
    \/ \E t \in CounterThreads : LockedRead(t)
    \/ \E t \in CounterThreads : WriteUnlock(t)

CounterSpec == CounterInit /\ [][CounterNext]_vars

----------------------------------------------------------------------------
(* The end-to-end scenario: E2E.docs records, batch size E2E.batch for the *)
(* three stages, a transform that adds the field score, a store that       *)
(* rejects nothing.  The CONFIG options upload.target_chunk_mb and         *)
(* upload.max_chunk_size are the environment's.                            *)

E2E == [docs |-> 25, batch |-> 10, pages |-> <<10, 10, 5>>]
E2ETargets == {5, 100}
E2EMaxChunks == {2000}

E2EInit ==
    /\ PureIdle
    /\ \E fbytes \in FieldBytesChoices, target_mb \in E2ETargets,
          max_chunk \in E2EMaxChunks :
          Constructed(E2E.docs, "add_score", E2E.batch, E2E.batch, E2E.batch,
                      1, 1, 2, TRUE, FALSE, TRUE, fbytes, target_mb,
                      max_chunk, 0)

\* the steps of Next such a run can take: it has no func_lock, a push batch
\* size and no rejected record
E2ENext ==
    \/ RunStart
    \/ StartUpdaters
    \/ StartPushers
    \/ Join
    \/ PullFetch
    \/ PullPut
    \/ PullCount
    \/ \E w \in Updaters : UpdateCheck(w)
    \/ \E w \in Updaters : UpdateLock(w)
    \/ \E w \in Updaters : UpdateDrainGet(w)
    \/ \E w \in Updaters : UpdateDrainEnd(w)
    \/ \E w \in Updaters : UpdateReturn(w)
    \/ \E w \in Updaters : UpdatePut(w)
    \/ \E w \in Updaters : UpdateCount(w)
    \/ \E w \in Pushers : PushCheck(w)
    \/ \E w \in Pushers : PushLock(w)
    \/ \E w \in Pushers : PushDrainGet(w)
    \/ \E w \in Pushers : PushWrite(w)
    \/ \E w \in Pushers : PushCount(w)

E2ESpec == E2EInit /\ [][E2ENext]_vars

----------------------------------------------------------------------------
(* Properties *)

AllWritten == \A i \in Ids : accepted[i] = 1

\* C1: in a run of N > 0 records with an identity transform and no write
\* rejections, pushed_count eventually equals N and then every identifier
\* the puller returned has been written back exactly once
C1_PushedConvergesToN ==
    (may_reject = 0 /\ opts.func = "identity" /\ N > 0)
        => <>(push_bar = N /\ AllWritten)

\* C2: once some records were rejected and every record, the rejected ones
\* included, has been accepted, pushed_count eventually reaches the grown
\* run total, every pusher has left its loop and a synchronous run() returns
C2_PushedReachesGrownTotal ==
    (ndocs > N /\ \A i \in Ids : accepted[i] >= 1)
        ~> (/\ push_bar = ndocs
            /\ \A w \in Pushers : p_pc[w] = "done"
            /\ opts.background_execution => main_pc = "returned")

\* C3: once updated_count equals the number N of records counted at the
\* start of the run, every updater eventually leaves its loop
C3_UpdatersExitAtN ==
    (update_bar = N /\ \A w \in Updaters : u_pc[w] # "new")
        ~> (\A w \in Updaters : u_pc[w] = "done")

\* C4: in every reachable state pushed_count <= updated_count <= pulled_count
C4_CountersOrdered == push_bar <= update_bar /\ update_bar <= pull_bar

\* C5: after a bulk write whose response lists identifier i as failed, a
\* later bulk write containing i eventually occurs
C5_FailedIsResent ==
    \A i \in DocCounts : \A k \in 1..(MaxRejects + 1) :
        (i \in awaiting /\ sent[i] = k) ~> (i \in Ids /\ sent[i] > k)

\* a step in which pusher w issues a bulk write and handles its response
WriteStep(w) == p_pc[w] = "drain" /\ p_pc'[w] # "drain"

\* C6: a bulk write whose response reports k failed records increases the
\* run total by exactly k (k is what the store rejected in that write), and
\* a write with no reported failure leaves the run total unchanged
C6_TotalGrowsByFailures ==
    [][\A w \in Pushers :
          WriteStep(w) => ndocs' = ndocs + (may_reject - may_reject')]_vars

C6_Witness ==
    \E w \in Pushers : /\ p_pc[w] = "requeue"
                       /\ Cardinality(p_res[w]) = 2
                       /\ Len(p_batch[w]) = 2
                       /\ ndocs = N + 2

\* a step in which updater w enters the transform with its batch
FuncStep(w) == u_pc[w] # "func" /\ u_pc'[w] = "func"

\* C7: with update_all_at_once, N records and a single updater, the batch
\* the transform is entered with always holds all N records, the transform
\* is entered at most once, and it has been entered once when the updater
\* leaves its loop
C7_AllAtOnceSingleBatch ==
    [][\A w \in Updaters :
          (opts.update_all_at_once /\ opts.update_workers = 1)
              => /\ FuncStep(w) => (Len(u_batch[w]) = N /\ func_calls = 0)
                 /\ u_pc'[w] = "done" => func_calls' = 1]_vars

C7_Witness ==
    /\ opts.update_all_at_once
    /\ opts.update_workers = 1
    /\ N > 1
    /\ opts.pull_batch_size < N
    /\ u_pc[1] = "done"
    /\ func_calls = 1

\* the transform left field k of record idx as it was
Unchanged(idx, k) ==
    /\ k \in DOMAIN pp_old[idx]
    /\ k \in DOMAIN pp_new[idx]
    /\ pp_old[idx][k] = pp_new[idx][k]

\* C8: field suppression removes from each output record exactly the fields
\* that were in the record's original key snapshot and that the transform
\* left unchanged (the identifier apart); a field that existed before and
\* that the transform changed is kept
C8_SuppressesUnchangedOnly ==
    pp_pc # "input" =>
        /\ Len(pp_out) = Len(pp_new)
        /\ \A idx \in 1..Len(pp_new) : \A k \in PPFields :
              k \in DOMAIN pp_out[idx]
                  <=> /\ k \in DOMAIN pp_new[idx]
                      /\ k = "_id" \/ ~Unchanged(idx, k)

\* C9: field suppression is idempotent: applied to its own result with the
\* same original-key snapshot, _postprocess returns that result
C9_PostprocessIdempotent == pp_pc = "reapplied" => pp_again = pp_out

C9_Witness ==
    /\ pp_pc = "reapplied"
    /\ Len(pp_new) = MaxBatchLen
    /\ \A idx \in 1..Len(pp_new) : DOMAIN pp_out[idx] # DOMAIN pp_new[idx]
    /\ pp_again = pp_out

NonEmptyPages == SelectSeq(pages, LAMBDA x : x > 0)

\* C10: in the end-to-end scenario the puller receives exactly three
\* non-empty pages, of 10, 10 and 5 records; the run ends with pulled_count =
\* updated_count = pushed_count = 25 and every written record has only the
\* fields _id and score
C10_EndToEnd ==
    /\ pull_pc = "done" => NonEmptyPages = E2E.pages
    /\ main_pc = "returned" =>
          /\ pull_bar = E2E.docs
          /\ update_bar = E2E.docs
          /\ push_bar = E2E.docs
          /\ \A d \in written : DOMAIN d = {"_id", "score"}

\* C11: for every sample whose average record size is greater than 0, the
\* batch size _get_optimal_batch_size returns is at least 1 and at most the
\* configured maximum upload.max_chunk_size
C11_SizerWithinBounds ==
    (sz_pc = "applied" /\ sz_sizes # <<>> /\ Sum(sz_sizes) > 0)
        => /\ sz_out.raised = ""
           /\ sz_out.chunksize >= 1
           /\ sz_out.chunksize <= config.max_chunk_size

\* C12: for an empty sample, or one whose average record size is 0,
\* _get_optimal_batch_size returns the configured maximum and does not fail
C12_SizerFallsBackToMax ==
    (sz_pc = "applied" /\ (sz_sizes = <<>> \/ Sum(sz_sizes) = 0))
        => sz_out = [raised |-> "", chunksize |-> config.max_chunk_size]

\* C13: when the dataset reports no record, constructing the pipeline and
\* calling run() ends without error (the caller is at run() or past it), no
\* worker thread is started, no page is fetched and nothing is written back
C13_EmptyRunReturnsAtOnce ==
    (main_pc # "off" /\ N <= 0)
        => /\ main_pc \in {"run", "returned"}
           /\ pull_pc = "new"
           /\ \A w \in Updaters : u_pc[w] = "new"
           /\ \A w \in Pushers : p_pc[w] = "new"
           /\ pages = <<>>
           /\ written = {}

\* C14: once the transform has failed inside an updater, the caller
\* eventually leaves run(), with the transform's error: it does not wait
\* forever
C14_TransformErrorEndsRun ==
    (\E w \in Updaters : u_pc[w] = "crashed")
        ~> (main_pc \in {"returned", "func_error"})

PushersEnded == \A w \in Pushers : Terminated(p_pc[w])
UpdatersEnded == \A w \in Updaters : Terminated(u_pc[w])

\* C15: with background_execution set, run() goes on to join the updaters
\* only when every pusher has terminated, to join the puller only when every
\* updater has terminated too, and returns only when the puller has
\* terminated as well; without it, run() returns as soon as it has started
\* the pushers
C15_JoinsInOrder ==
    [][/\ main_pc' = "join_update" => PushersEnded'
       /\ main_pc' = "join_pull" => (PushersEnded' /\ UpdatersEnded')
       /\ (main_pc' = "returned" /\ opts.background_execution)
             => (PushersEnded' /\ UpdatersEnded' /\ Terminated(pull_pc'))
       /\ (~opts.background_execution /\ main_pc = "wait_pq"
                                      /\ main_pc' # "wait_pq")
             => (main_pc' = "returned" /\ ~PushersEnded')]_vars

C15_Witness ==
    /\ main_pc = "returned"
    /\ opts.background_execution
    /\ opts.push_workers > 1
    /\ N > 1
    /\ \A w \in Pushers : p_pc[w] = "done"
    /\ \A w \in Updaters : u_pc[w] = "done"
    /\ pull_pc = "done"
    /\ push_bar = N

\* a run without background_execution has returned and its workers go on
C15_ReturnedEarly ==
    /\ main_pc = "returned"
    /\ ~opts.background_execution
    /\ pull_pc # "done"
    /\ ~UpdatersEnded
    /\ ~PushersEnded

\* the updaters that are inside the transform
InFunc == {w \in Updaters : u_pc[w] = "func"}

\* C16: when the run was constructed with multithreaded_update = false,
\* the updater pool has one thread whatever update_workers was requested,
\* and never are two updaters inside the transform at once
C16_UnsafeTransformSerialised ==
    (~args.multithreaded_update /\ main_pc \notin {"off", "init_raised"})
        => /\ opts.update_workers = 1
           /\ DOMAIN u_pc = {1}
           /\ Cardinality(InFunc) <= 1

C16_Witness ==
    /\ ~args.multithreaded_update
    /\ args.update_workers > 1
    /\ opts.update_workers = 1
    /\ u_pc[1] = "func"
    /\ func_lock = 1
    /\ Len(u_batch[1]) > 1

\* the run was constructed with a pull or an update batch size larger than
\* the number of records
OversizeBatch ==
    /\ main_pc # "off"
    /\ args.pull_batch_size > N \/ args.update_batch_size > N

\* C17 as stated: constructing a run whose pull or update batch size is
\* larger than the number of available records raises an error
C17_OversizeBatchRejected == OversizeBatch => main_pc = "init_raised"

\* C17 as amended: constructing a run on a dataset with records whose pull
\* or update batch size is larger than the number of records raises no
\* error; the update batch size of the pipeline is at most the number of
\* records, and equal to it when the requested one was larger
C17_OversizeBatchClamped ==
    (OversizeBatch /\ N > 0)
        => /\ main_pc # "init_raised"
           /\ opts.update_batch_size <= N
           /\ args.update_batch_size > N => opts.update_batch_size = N

C17_Witness ==
    /\ args.pull_batch_size > N
    /\ args.update_batch_size > N
    /\ opts.update_batch_size = N
    /\ main_pc = "returned"
    /\ update_bar = N
    /\ push_bar = N

\* C18: sample called with frac in (0, 1] and without n returns
\* ceil(count * frac) records; it raises ValueError only when the caller
\* gave both frac and n or when frac is outside [0, 1]
C18_SampleByFraction ==
    sm_pc = "returned" =>
        /\ (sm_in.n = None /\ sm_in.frac # None
                /\ sm_in.frac > 0 /\ sm_in.frac <= 100)
              => /\ sm_out.raised = ""
                 /\ Len(sm_out.documents) = Ceil(N * sm_in.frac, 100)
        /\ sm_out.raised = "ValueError"
              => \/ sm_in.frac # None /\ sm_in.n # None
                 \/ sm_in.frac # None /\ (sm_in.frac < 0 \/ sm_in.frac > 100)

\* C19: no step decreases pulled_count, updated_count, pushed_count or the
\* run total
C19_CountersNeverDecrease ==
    [][/\ pull_bar' >= pull_bar
       /\ update_bar' >= update_bar
       /\ push_bar' >= push_bar
       /\ ndocs' >= ndocs]_vars

C19_Witness ==
    /\ pull_bar = N
    /\ update_bar = N
    /\ push_bar > 0
    /\ push_bar < N
    /\ ndocs > N
    /\ \E w \in Pushers : p_pc[w] = "check"

\* the records of batch whose identifier is in ids, in the order of batch
WithIdIn(batch, ids) == SelectSeq(batch, LAMBDA d : d["_id"] \in ids)

\* C20: after a bulk write the records to re-enqueue are the records of
\* the batch whose identifier the response reports as failed (none when it
\* reports none); each step of the re-enqueueing puts the next of them on
\* the outtake queue, and the pusher goes on only when each has been put
\* once
C20_RequeuesExactlyFailed ==
    [][\A w \in Pushers :
          /\ WriteStep(w)
                => /\ p_failed'[w] = WithIdIn(p_batch'[w], p_res'[w])
                   /\ p_pc'[w] = "requeue" <=> p_failed'[w] # <<>>
                   /\ p_i'[w] = 0
                   /\ pq' = pq
          /\ (p_pc[w] = "requeue" /\ p_i'[w] # p_i[w])
                => /\ p_i'[w] = p_i[w] + 1
                   /\ pq' = Append(pq, p_failed[w][p_i'[w]])
                   /\ p_failed'[w] = p_failed[w]
          /\ (p_pc[w] = "requeue" /\ p_pc'[w] # "requeue")
                => p_i'[w] = Len(p_failed[w])]_vars

C20_Witness ==
    \E w \in Pushers :
        /\ p_pc[w] = "count"
        /\ Len(p_batch[w]) = 2
        /\ p_res[w] = {p_batch[w][2]["_id"]}
        /\ p_failed[w] = <<p_batch[w][2]>>
        /\ p_i[w] = 1
        /\ pq = p_failed[w]

\* a step in which pusher w adds to push_bar after a bulk write
CountStep(w) == p_pc[w] = "count" /\ p_pc'[w] # "count"

\* C21: after a bulk write of a batch of length b whose response reports f
\* failures, pushed_count grows by exactly b - f, and b - f is not negative
C21_PushedGrowsByAccepted ==
    [][\A w \in Pushers :
          CountStep(w)
              => /\ push_bar' = push_bar + Len(p_batch[w])
                                          - Cardinality(p_res[w])
                 /\ Len(p_batch[w]) - Cardinality(p_res[w]) >= 0]_vars

C21_Witness ==
    /\ N = 2
    /\ push_batch_size >= 2
    /\ \A i \in Ids : sent[i] = 1
    /\ ndocs = N + 1
    /\ push_bar = 1
    /\ \E w \in Pushers : p_pc[w] = "check"

PullerStarts == pull_pc = "new" /\ pull_pc' # "new"
UpdaterStarts == \E w \in Updaters : u_pc[w] = "new" /\ u_pc'[w] # "new"
PusherStarts == \E w \in Pushers : p_pc[w] = "new" /\ p_pc'[w] # "new"

\* C22: the puller is started before any updater and any pusher; an
\* updater is started only when the puller runs and the intake queue holds
\* a record; a pusher is started only when every updater has been started
\* and the outtake queue holds a record
C22_StartsInStageOrder ==
    [][/\ PullerStarts => /\ \A w \in Updaters : u_pc[w] = "new"
                          /\ \A w \in Pushers : p_pc[w] = "new"
       /\ UpdaterStarts => (pull_pc # "new" /\ tq # <<>>)
       /\ PusherStarts => /\ \A w \in Updaters : u_pc[w] # "new"
                          /\ pull_pc # "new"
                          /\ pq # <<>>]_vars

C22_Witness ==
    /\ main_pc = "join_push"
    /\ opts.push_workers > 1
    /\ \A w \in Pushers : p_pc[w] = "check"
    /\ \A w \in Updaters : u_pc[w] # "new"
    /\ pull_pc # "new"
    /\ pq # <<>>

\* a PullUpdatePush object exists
Constructs == main_pc \notin {"off", "init_raised"}

\* C23: in every reachable state each of the two queues holds at most
\* single_queue_size = floor(total_queue_size / 2) records
C23_QueuesWithinCapacity ==
    Constructs => /\ Len(tq) <= opts.single_queue_size
                  /\ Len(pq) <= opts.single_queue_size

\* available memory * ram_ratio / estimated maximum record size; the
\* records of a dataset all have the size of the first
DerivedTotal ==
    (RamBytes * RamRatioPct)
        \div (100 * Min(getsizeof(dataset[1], config.field_bytes), MB))

\* C24 as stated: outside all-at-once mode the capacity of each queue is
\* half of min(explicit buffer size, memory-derived size)
C24_TotalIsMin ==
    (Constructs /\ ~opts.update_all_at_once)
        => opts.single_queue_size =
               (IF args.buffer_size = 0 THEN DerivedTotal
                ELSE Min(args.buffer_size, DerivedTotal)) \div 2

\* C24 as amended: outside all-at-once mode the capacity of each queue is
\* half of the explicit buffer size when one is given (not 0), also when it
\* is larger than the memory-derived size, and half of the memory-derived
\* size otherwise
C24_ExplicitBufferWins ==
    (Constructs /\ ~opts.update_all_at_once)
        => opts.single_queue_size =
               (IF args.buffer_size # 0 THEN args.buffer_size
                ELSE DerivedTotal) \div 2

C24_Witness ==
    /\ Constructs
    /\ ~opts.update_all_at_once
    /\ args.buffer_size > DerivedTotal
    /\ opts.single_queue_size = 1
    /\ Len(tq) = 1
    /\ pull_pc = "put"

\* the updaters inside _get_update_batch, the pushers inside _get_push_batch
UpdatersDraining == {w \in Updaters : u_pc[w] = "drain"}
PushersDraining == {w \in Pushers : p_pc[w] \in {"sample", "drain"}}

\* C25: at most one updater is inside _get_update_batch and at most one
\* pusher inside _get_push_batch; a record leaves the intake (outtake)
\* queue only into the batch of the updater (pusher) that holds the drain
\* lock, as the next record of that batch, and no other batch changes in
\* that step
C25_DrainsAreExclusive ==
    [][/\ Cardinality(UpdatersDraining) <= 1
       /\ Cardinality(UpdatersDraining') <= 1
       /\ Cardinality(PushersDraining) <= 1
       /\ Cardinality(PushersDraining') <= 1
       /\ Len(tq') < Len(tq)
             => \E w \in Updaters :
                   /\ update_batch_lock = w
                   /\ UpdatersDraining = {w}
                   /\ u_batch' = [u_batch EXCEPT ![w] = Append(@, Head(tq))]
       /\ Len(pq') < Len(pq)
             => \E w \in Pushers :
                   /\ push_batch_lock = w
                   /\ PushersDraining = {w}
                   /\ p_batch' = [p_batch EXCEPT ![w] = Append(@, Head(pq))]]_vars

C25_Witness ==
    /\ opts.update_workers > 1
    /\ u_pc[1] = "drain"
    /\ Len(u_batch[1]) = 1
    /\ update_batch_lock = 1
    /\ u_pc[2] = "lock"
    /\ tq # <<>>

\* C26: a queue timeout never ends a pusher with an error: a pusher that
\* samples the outtake queue without a configured push batch size and gets
\* fewer than SampleN records goes on with the sample it has
C26_SampleTimeoutNotFatal ==
    \A w \in Pushers : p_pc[w] # "crashed"

\* C27: the puller goes on to the next page after every non-empty page and
\* terminates after the first empty one; every record it puts on the intake
\* queue is one more record of the current page, and pulled_count grows by
\* the length of a page when all its records have been put, so that at
\* termination pulled_count is the number of records put on the queue
C27_PullerStopsOnEmptyPage ==
    [][/\ Len(tq') > Len(tq)
             => /\ pull_pc = "put"
                /\ pull_i' = pull_i + 1
                /\ tq' = Append(tq, documents[pull_i'])
       /\ (pull_pc = "count" /\ pull_pc' # "count")
             => /\ pull_i = Len(documents)
                /\ Len(documents) = pages[Len(pages)]
                /\ pull_bar' = pull_bar + Len(documents)
                /\ pull_pc' = IF documents = <<>> THEN "done" ELSE "fetch"
       /\ pull_pc' = "done"
             => /\ pages'[Len(pages')] = 0
                /\ \A k \in 1..(Len(pages') - 1) : pages'[k] > 0
                /\ pull_bar' = Sum(pages')]_vars

C27_Witness ==
    /\ pull_pc = "done"
    /\ pages = <<1, 1, 0>>
    /\ pull_bar = 2

\* C28: a counter is changed only by the thread that holds general_lock,
\* at most one thread is inside a counter update, and no increment is lost:
\* each counter equals the sum of the increments applied to it
C28_NoLostIncrement ==
    gl_pc # <<>> =>
        /\ gl_n = gl_sum
        /\ \A t \in CounterThreads : gl_pc[t] = "inside" <=> general_lock = t

C28_Witness ==
    /\ gl_pc # <<>>
    /\ \A t \in CounterThreads : gl_left[t] = 0
    /\ gl_n["push_bar"] > 2
    /\ gl_n["ndocs"] > 0
    /\ gl_n = gl_sum

\* the identifiers that have been part of a bulk write
SentIds == {i \in Ids : sent[i] > 0}

\* C29: with one updater, one pusher and no write failure so far, the
\* identifiers sent in bulk writes so far are the first ones the puller
\* received (the dataset returns identifiers 1, 2, ... in this order), and
\* the batch of the next bulk write continues that sequence in order
C29_WritesInPullOrder ==
    [][(/\ Constructs
        /\ opts.update_workers = 1
        /\ opts.push_workers = 1
        /\ ndocs = N
        /\ WriteStep(1))
          => /\ SentIds = 1..Cardinality(SentIds)
             /\ \A k \in 1..Len(p_batch'[1]) :
                   p_batch'[1][k]["_id"] = Cardinality(SentIds) + k]_vars

C29_Witness ==
    /\ opts.update_workers = 1
    /\ opts.push_workers = 1
    /\ N = 2
    /\ ndocs = N
    /\ push_batch_size = 1
    /\ \A i \in Ids : sent[i] = 1 /\ accepted[i] = 1
    /\ push_bar = N

\* C30: _postprocess returns a batch of the length of the transform's
\* output whose record at each position has only fields, with their values,
\* of the output record at that position; a record that carried _id still
\* carries it with the same value, also when _id is in the key snapshot
C30_PostprocessKeepsIdentifier ==
    pp_pc # "input" =>
        /\ Len(pp_out) = Len(pp_new)
        /\ \A idx \in 1..Len(pp_new) :
              /\ DOMAIN pp_out[idx] \subseteq DOMAIN pp_new[idx]
              /\ \A k \in DOMAIN pp_out[idx] :
                    pp_out[idx][k] = pp_new[idx][k]
              /\ "_id" \in DOMAIN pp_new[idx]
                    => /\ "_id" \in DOMAIN pp_out[idx]
                       /\ pp_out[idx]["_id"] = pp_new[idx]["_id"]

C30_Witness ==
    /\ pp_pc = "applied"
    /\ Len(pp_new) > 1
    /\ \A idx \in 1..Len(pp_new) :
          /\ "_id" \in DOMAIN pp_old[idx]
          /\ DOMAIN pp_new[idx] = PPFields
          /\ DOMAIN pp_out[idx] = {"_id", "score"}
          /\ pp_out[idx]["_id"] = idx

\* updater w can go on inside _get_update_batch: take a record or return
CanDrain(w) == ENABLED (UpdateDrainGet(w) \/ UpdateDrainEnd(w))

\* a step in which updater w leaves _get_update_batch
DrainEndStep(w) == u_pc[w] = "drain" /\ u_pc'[w] # "drain"

\* C31: outside all-at-once mode an updater inside _get_update_batch is
\* never blocked, and when the intake queue is empty it leaves with the
\* batch it has, shorter than update_batch_size or not, and releases
\* update_batch_lock
C31_UpdaterTakesShortBatch ==
    /\ [](\A w \in Updaters :
            (~opts.update_all_at_once /\ u_pc[w] = "drain") => CanDrain(w))
    /\ [][\A w \in Updaters :
            (~opts.update_all_at_once /\ u_pc[w] = "drain" /\ tq = <<>>)
                => /\ DrainEndStep(w) \/ UNCHANGED <<u_pc[w], u_batch[w]>>
                   /\ DrainEndStep(w) => /\ u_batch'[w] = u_batch[w]
                                          /\ update_batch_lock' = 0]_vars

C31_Witness ==
    \E w \in Updaters :
        /\ ~opts.update_all_at_once
        /\ opts.update_batch_size = 2
        /\ u_pc[w] \in {"call", "func"}
        /\ Len(u_batch[w]) = 1
        /\ update_batch_lock = 0
        /\ pull_pc = "put"

\* pusher w is blocked in the put of a failed record on the full push queue
BlockedInRequeue(w) ==
    p_pc[w] = "requeue" /\ QueueFull(pq, opts.single_queue_size)

\* C32: no pusher is ever blocked putting a failed record back onto the
\* full push queue while no other pusher is left to take a record from it
C32_RequeueNeverDeadlocks ==
    \A w \in Pushers :
        BlockedInRequeue(w)
            => \E v \in Pushers \ {w} :
                   p_pc[v] \notin {"requeue", "done", "crashed"}

\* updater w waits in the get of _get_update_batch for a record that will
\* never come: the puller is done and the intake queue is empty
WaitsForever(w) ==
    /\ u_pc[w] = "drain"
    /\ ~UpdateBatchReady(u_batch[w], tq, opts.update_batch_size,
                         opts.update_all_at_once)
    /\ tq = <<>>
    /\ pull_pc = "done"

\* C33: in all-at-once mode with a concurrency-safe transform and two or
\* more updaters, no updater is left waiting on the empty intake queue once
\* the single batch of all the records has been taken
C33_AllAtOnceUpdatersEnd ==
    (/\ Constructs
     /\ opts.update_all_at_once
     /\ ~opts.use_func_lock
     /\ opts.update_workers >= 2
     /\ ndocs = N)
        => \A w \in Updaters : ~WaitsForever(w)

\* the records of s after its first k
Rest(s, k) == SubSeq(s, k + 1, Len(s))

\* how many times record i is in the page the puller has not yet enqueued
InPuller(i) ==
    IF pull_pc = "put" THEN Occurrences(Rest(documents, pull_i), i) ELSE 0

\* how many times record i is in the batch of updater w, up to its put
InUpdater(w, i) ==
    CASE u_pc[w] \in {"drain", "call", "func"} -> Occurrences(u_batch[w], i)
      [] u_pc[w] = "put" -> Occurrences(Rest(u_batch[w], u_i[w]), i)
      [] OTHER -> 0

\* how many times record i is in the batch of pusher w: before the write
\* the whole batch, after it the failed records not yet put back
InPusher(w, i) ==
    CASE p_pc[w] \in {"sample", "drain"} -> Occurrences(p_batch[w], i)
      [] p_pc[w] = "requeue" -> Occurrences(Rest(p_failed[w], p_i[w]), i)
      [] OTHER -> 0

\* in how many places of the pipeline record i is
Places(i) ==
    InPuller(i) + Occurrences(tq, i) + Occurrences(pq, i) + accepted[i]
        + Sum([w \in Updaters |-> InUpdater(w, i)])
        + Sum([w \in Pushers |-> InPusher(w, i)])

\* C34: while the transform has not failed, every record the puller has
\* fetched is in exactly one place: the intake queue, the batch of an
\* updater, the push queue, the batch of a pusher, or the remote store
C34_RecordsConserved ==
    (Constructs /\ \A w \in Updaters : u_pc[w] # "crashed")
        => \A i \in 1..after_id : Places(i) = 1

\* C35: whatever the remote store rejects, a record in a bulk write was
\* either never sent before or reported failed by the last write that
\* carried it, and no record is accepted by the store more than once
C35_AcceptedAtMostOnce ==
    [][\A w \in Pushers :
          WriteStep(w) =>
              \A i \in IdsOf(p_batch'[w]) :
                  /\ sent[i] > 0 => i \in awaiting
                  /\ accepted'[i] <= 1]_vars

C35_Witness ==
    /\ N = 2
    /\ sent = <<2, 2>>
    /\ accepted = <<1, 1>>
    /\ awaiting = {}

\* the number of records the remote store has accepted so far
AcceptedCount == Sum(accepted)

\* pusher w is between a bulk write and the update of push_bar for it
AfterWrite(w) == p_pc[w] \in {"requeue", "count"}

\* C36: push_bar never exceeds the run total and equals the number of
\* records the remote store has accepted so far
C36_PushedIsAccepted ==
    Constructs => push_bar <= ndocs /\ push_bar = AcceptedCount

\* C36 as the code has it: push_bar never exceeds the run total nor the
\* number of accepted records, and equals that number whenever no pusher
\* is between a bulk write and its update of push_bar
C36_PushedFollowsAccepted ==
    Constructs =>
        /\ push_bar <= ndocs
        /\ push_bar <= AcceptedCount
        /\ (\A w \in Pushers : ~AfterWrite(w)) => push_bar = AcceptedCount

C36_Witness ==
    /\ N = 2
    /\ ndocs = 3
    /\ AcceptedCount = 1
    /\ push_bar = 1
    /\ \E w \in Pushers : p_pc[w] = "drain" /\ p_batch[w] # <<>>

\* C37: an updater never calls the transform with an empty batch
C37_TransformBatchNonEmpty ==
    \A w \in Updaters : u_pc[w] = "func" => u_batch[w] # <<>>

\* C38: a pusher never sends an empty batch to the bulk write
C38_WriteBatchNonEmpty ==
    \A w \in Pushers : AfterWrite(w) => p_batch[w] # <<>>

\* C39: every batch sent to the bulk write has at most push_batch_size
\* records, the first batch of a lazily sized run included
C39_WriteBatchWithinSize ==
    \A w \in Pushers : AfterWrite(w) => Len(p_batch[w]) <= push_batch_size

\* C40: with and without func_lock the transform is called with the batch,
\* the positional arguments func_args and the keyword arguments func_kwargs
C40_SameArgumentsWithAndWithoutLock ==
    \A w \in Updaters :
        u_pc[w] = "func"
            => u_args[w] = [args |-> opts.func_args,
                            kwargs |-> opts.func_kwargs, called |-> TRUE]

====
